---- MODULE Spec2Model ----
(***************************************************************************)
(* Model of the medication lookup engine of the voice bot (src/app.py):    *)
(* normalize_arabic, build_med_index_from_dict, find_med_in_text and the   *)
(* part of the /upload handler that consumes the lookup result.            *)
(*                                                                         *)
(* A Python str is modelled as a sequence of Unicode code points, so that  *)
(* the regular-expression classes of normalize_arabic, the `in` substring  *)
(* test and the ordering of strings (used by difflib to break ties) are    *)
(* computed on the same data as in the program.                            *)
(***************************************************************************)
EXTENDS Integers, Sequences, FiniteSets, TLC

VARIABLES
    medications_data,  \* module global: ordered mapping name -> info (app.py:147)
    med_index,         \* module global: list of index entries (app.py:148)
    main_pc,           \* position of the module-level start-up code
    gemini_model,      \* module global: TRUE iff a Gemini client was configured
    pc,                \* per request thread: position inside upload_audio
    question_text,     \* per request thread: local of upload_audio
    norm_text,         \* per request thread: local of find_med_in_text
    found,             \* per request thread: (med_key, med_info) and the tier logged
    answer_text,       \* per request thread: local of upload_audio
    arg,               \* argument of a direct call of a pure function
    rets               \* results of the direct calls made so far

vars == <<medications_data, med_index, main_pc, gemini_model, pc, question_text,
          norm_text, found, answer_text, arg, rets>>

(***************************************************************************)
(* Characters, as Unicode code points.                                     *)
(***************************************************************************)
SP == <<32>>
BANG == <<33>>

\* str.isspace() / the regex class \s, on the code points below U+0080
IsSpace(c) == c \in {9, 10, 11, 12, 13, 28, 29, 30, 31, 32}

\* the regex class \w on ASCII; Arabic letters are covered by InArabicBlock
IsWordChar(c) == \/ c \in 48..57
                 \/ c \in 65..90
                 \/ c = 95
                 \/ c \in 97..122

InArabicBlock(c) == c \in 1536..1791

IsArabicDiacritic(c) == \/ c \in 1552..1562
                        \/ c \in 1611..1631
                        \/ c = 1648
                        \/ c \in 1750..1773

\* str.lower() on one code point (only A-Z have a lower-case form here)
LowerChar(c) == IF c \in 65..90 THEN c + 32 ELSE c

\* str.strip(): drop leading and trailing whitespace
Strip(s) ==
    LET keep == {i \in 1..Len(s) : ~IsSpace(s[i])}
    IN  IF keep = {} THEN <<>>
        ELSE LET lo == CHOOSE i \in keep : \A j \in keep : i <= j
                 hi == CHOOSE i \in keep : \A j \in keep : j <= i
             IN  SubSeq(s, lo, hi)

\* re.sub(r"\s+", " ", text): every run of whitespace becomes one space
RECURSIVE CollapseFrom(_, _)
CollapseFrom(s, i) ==
    IF i > Len(s) THEN <<>>
    ELSE IF IsSpace(s[i])
         THEN IF i > 1 /\ IsSpace(s[i-1])
              THEN CollapseFrom(s, i + 1)
              ELSE SP \o CollapseFrom(s, i + 1)
         ELSE <<s[i]>> \o CollapseFrom(s, i + 1)

CollapseSpaces(s) == CollapseFrom(s, 1)

\* text.strip().lower()
Lower(s) == [i \in 1..Len(s) |-> LowerChar(s[i])]

\* ARABIC_DIACRITICS.sub("", text)
DropDiacritics(s) == SelectSeq(s, LAMBDA c : ~IsArabicDiacritic(c))

\* the four single-character substitutions, and the one of punctuation
FoldAlef(c) == IF c \in {1570, 1571, 1573, 1648} THEN 1575 ELSE c
FoldAlefMaksura(c) == IF c = 1609 THEN 1610 ELSE c
FoldWawHamza(c) == IF c = 1572 THEN 1608 ELSE c
FoldYaHamza(c) == IF c = 1574 THEN 1610 ELSE c
PunctToSpace(c) == IF IsWordChar(c) \/ IsSpace(c) \/ InArabicBlock(c) THEN c ELSE 32

SubAlef(s) == [i \in 1..Len(s) |-> FoldAlef(s[i])]
SubAlefMaksura(s) == [i \in 1..Len(s) |-> FoldAlefMaksura(s[i])]
SubWawHamza(s) == [i \in 1..Len(s) |-> FoldWawHamza(s[i])]
SubYaHamza(s) == [i \in 1..Len(s) |-> FoldYaHamza(s[i])]
SubPunct(s) == [i \in 1..Len(s) |-> PunctToSpace(s[i])]

\* the four foldings in the order of the code
FoldLetters(s) == SubYaHamza(SubWawHamza(SubAlefMaksura(SubAlef(s))))

\* A variant with the last two steps in the other order (whitespace collapsed
\* before, not after, punctuation becomes spaces).
normalize_arabic_collapse_first(text) ==
    IF text = <<>> THEN <<>>
    ELSE SubPunct(Strip(CollapseSpaces(FoldLetters(DropDiacritics(Lower(Strip(text)))))))

normalize_arabic(text) ==
    IF text = <<>> THEN <<>>
    ELSE Strip(CollapseSpaces(SubPunct(FoldLetters(DropDiacritics(Lower(Strip(text)))))))

(***************************************************************************)
(* Python built-ins used by the lookup.                                    *)
(***************************************************************************)
\* `n in s` on two strings
IsSubstring(n, s) ==
    \E i \in 0..(Len(s) - Len(n)) : SubSeq(s, i + 1, i + Len(n)) = n

\* str.split(): the maximal runs of non-whitespace, left to right
RECURSIVE SplitFrom(_, _, _)
SplitFrom(s, i, cur) ==
    IF i > Len(s) THEN (IF cur = <<>> THEN <<>> ELSE <<cur>>)
    ELSE IF IsSpace(s[i])
         THEN (IF cur = <<>> THEN <<>> ELSE <<cur>>) \o SplitFrom(s, i + 1, <<>>)
         ELSE SplitFrom(s, i + 1, Append(cur, s[i]))

Split(s) == SplitFrom(s, 1, <<>>)

\* list(dict.fromkeys(xs)): first occurrences, order kept
Dedup(xs) ==
    LET F[i \in 0..Len(xs)] ==
            IF i = 0 THEN <<>>
            ELSE IF \E j \in 1..(i - 1) : xs[j] = xs[i]
                 THEN F[i - 1]
                 ELSE Append(F[i - 1], xs[i])
    IN  F[Len(xs)]

\* x < y on two strings: lexicographic order of the code points
StrLess(x, y) ==
    \E i \in 1..(Len(y)) :
        /\ \A j \in 1..(i - 1) : j <= Len(x) /\ x[j] = y[j]
        /\ (i > Len(x) \/ (i <= Len(x) /\ x[i] < y[i]))
        /\ i - 1 <= Len(x)

RECURSIVE Flatten(_)
Flatten(ss) == IF ss = <<>> THEN <<>> ELSE Head(ss) \o Flatten(Tail(ss))

(***************************************************************************)
(* difflib.SequenceMatcher(a = possibility, b = word) without junk.        *)
(* Positions are 1-based; a block (i, j, k) is a[i..i+k-1] = b[j..j+k-1].  *)
(***************************************************************************)
RECURSIVE CommonPrefix(_, _, _, _, _, _)
CommonPrefix(a, b, i, j, ahi, bhi) ==
    IF i <= ahi /\ j <= bhi /\ a[i] = b[j]
    THEN 1 + CommonPrefix(a, b, i + 1, j + 1, ahi, bhi)
    ELSE 0

\* find_longest_match(alo, ahi, blo, bhi): the longest block inside the two
\* windows; of the longest, the one starting earliest in a, then earliest in b.
find_longest_match(a, b, alo, ahi, blo, bhi) ==
    LET starts == (alo..ahi) \X (blo..bhi)
        size == [p \in starts |-> CommonPrefix(a, b, p[1], p[2], ahi, bhi)]
        hits == {p \in starts : size[p] > 0}
    IN  IF hits = {} THEN <<alo, blo, 0>>
        ELSE LET best == CHOOSE p \in hits :
                     \A q \in hits :
                         \/ size[q] < size[p]
                         \/ /\ size[q] = size[p]
                            /\ (p[1] < q[1] \/ (p[1] = q[1] /\ p[2] <= q[2]))
             IN  <<best[1], best[2], size[best]>>

\* sum of the sizes of get_matching_blocks(): the longest block, then the
\* same again on what lies left and right of it
RECURSIVE matching_total(_, _, _, _, _, _)
matching_total(a, b, alo, ahi, blo, bhi) ==
    IF alo > ahi \/ blo > bhi THEN 0
    ELSE LET lm == find_longest_match(a, b, alo, ahi, blo, bhi)
             m == [i |-> lm[1], j |-> lm[2], k |-> lm[3]]
         IN  IF m.k = 0 THEN 0
             ELSE m.k
                  + matching_total(a, b, alo, m.i - 1, blo, m.j - 1)
                  + matching_total(a, b, m.i + m.k, ahi, m.j + m.k, bhi)

\* _calculate_ratio(matches, length) as the fraction <<numerator, denominator>>:
\* 2.0 * matches / length, and 1.0 when both strings are empty
calculate_ratio(matches, length) ==
    IF length = 0 THEN <<1, 1>> ELSE <<2 * matches, length>>

ratio(a, b) ==
    calculate_ratio(matching_total(a, b, 1, Len(a), 1, Len(b)), Len(a) + Len(b))

\* the two cheap upper bounds get_close_matches tests first
real_quick_ratio(a, b) ==
    calculate_ratio(IF Len(a) < Len(b) THEN Len(a) ELSE Len(b), Len(a) + Len(b))

CountOf(s, c) == Cardinality({i \in 1..Len(s) : s[i] = c})

RECURSIVE SumMin(_, _, _)
SumMin(a, b, cs) ==
    IF cs = {} THEN 0
    ELSE LET c == CHOOSE x \in cs : TRUE
             na == CountOf(a, c)
             nb == CountOf(b, c)
         IN  (IF na < nb THEN na ELSE nb) + SumMin(a, b, cs \ {c})

quick_ratio(a, b) ==
    calculate_ratio(SumMin(a, b, {b[i] : i \in 1..Len(b)}), Len(a) + Len(b))

\* comparisons of two scores; the program compares the floats 2.0*m/len,
\* which order as the fractions do for the lengths of the model
FracGE(r, c) == r[1] * c[2] >= c[1] * r[2]
FracLess(r, s) == r[1] * s[2] < s[1] * r[2]
FracEq(r, s) == r[1] * s[2] = s[1] * r[2]

\* (score, x) < (score', x') on the tuples get_close_matches collects
ScoredLess(score, x, score2, x2) ==
    \/ FracLess(score, score2)
    \/ (FracEq(score, score2) /\ StrLess(x, x2))

\* heapq.nlargest(1, result): max() of the (score, x) tuples at the positions
\* in result, the first of them if several are equal
Largest(possibilities, score, result) ==
    IF result = {} THEN <<>>
    ELSE <<possibilities[CHOOSE i \in result :
               \A j \in result :
                   /\ ~ScoredLess(score[i], possibilities[i], score[j], possibilities[j])
                   /\ (j < i => ScoredLess(score[j], possibilities[j],
                                           score[i], possibilities[i]))]>>

\* the positions of the possibilities that pass the three tests
CloseEnough(word, possibilities, score, cutoff) ==
    {i \in 1..Len(possibilities) :
        /\ FracGE(real_quick_ratio(possibilities[i], word), cutoff)
        /\ FracGE(quick_ratio(possibilities[i], word), cutoff)
        /\ FracGE(score[i], cutoff)}

Scored(word, possibilities, score, cutoff) ==
    Largest(possibilities, score, CloseEnough(word, possibilities, score, cutoff))

\* difflib.get_close_matches(word, possibilities, n=1, cutoff): the list of
\* the one best possibility, or the empty list
get_close_matches(word, possibilities, cutoff) ==
    Scored(word, possibilities,
           [i \in 1..Len(possibilities) |-> ratio(possibilities[i], word)], cutoff)

(***************************************************************************)
(* Records.  A value of the JSON payload is absent (dict.get gives None),  *)
(* a string or a list of strings.  An info is a plain string payload       *)
(* (isdict = FALSE) or a dict with the three recognised alias fields.      *)
(***************************************************************************)
Absent == [t |-> "absent", s |-> <<>>, l |-> <<>>]
StrVal(x) == [t |-> "str", s |-> x, l |-> <<>>]
ListVal(xs) == [t |-> "list", s |-> <<>>, l |-> xs]

\* Python truthiness of a payload value, as used by `or`
Truthy(v) == \/ (v.t = "str" /\ v.s # <<>>)
             \/ (v.t = "list" /\ v.l # <<>>)

StrInfo == [isdict |-> FALSE, aliases |-> Absent, alias |-> Absent,
            other_names |-> Absent, body |-> "text"]
DictInfo(aliases, alias, other_names) ==
    [isdict |-> TRUE, aliases |-> aliases, alias |-> alias,
     other_names |-> other_names, body |-> "fields"]
NoneInfo == [isdict |-> FALSE, aliases |-> Absent, alias |-> Absent,
             other_names |-> Absent, body |-> "None"]

\* aliases = info.get("aliases") or info.get("alias") or info.get(...) or []
\* followed by the wrapping of a single string into a list
AliasesOf(info) ==
    IF ~info.isdict THEN <<>>
    ELSE LET v == IF Truthy(info.aliases) THEN info.aliases
                  ELSE IF Truthy(info.alias) THEN info.alias
                  ELSE IF Truthy(info.other_names) THEN info.other_names
                  ELSE ListVal(<<>>)
         IN  IF v.t = "str" THEN <<v.s>> ELSE v.l

\* the first loop of build_med_index_from_dict: one entry per record, the
\* normalized name first, then the normalized aliases in their order
NormalizeAll(xs) == [i \in 1..Len(xs) |-> normalize_arabic(xs[i])]

RawNorms(rec) ==
    <<normalize_arabic(rec.name)>> \o NormalizeAll(AliasesOf(rec.info))

build_med_index_from_dict(meds) ==
    [i \in 1..Len(meds) |->
        [key |-> meds[i].name, norms |-> Dedup(RawNorms(meds[i])), raw |-> meds[i].info]]

(***************************************************************************)
(* find_med_in_text.  The result is the returned pair together with the    *)
(* tier named by the log line written just before the return.              *)
(***************************************************************************)
NoMatch == [none |-> TRUE, key |-> <<>>, raw |-> NoneInfo, tier |-> "none"]
Hit(entry, tier) == [none |-> FALSE, key |-> entry.key, raw |-> entry.raw, tier |-> tier]

\* cutoff=0.75 and cutoff=0.6 as fractions; DefaultCutoff is the cutoff
\* get_close_matches uses when the call passes none
DefaultCutoff == <<3, 5>>
TokenCutoff == <<3, 4>>
OverallCutoff == <<3, 5>>

\* a tier's return if it returned, else what the code below it returns
OrElse(r, rest) == IF r.none THEN rest ELSE r

InSeq(x, xs) == \E i \in 1..Len(xs) : xs[i] = x

\* the first, in list order, of the entries at the positions hits (0: none)
FirstEntry(hits) ==
    IF hits = {} THEN 0 ELSE CHOOSE i \in hits : \A j \in hits : i <= j

HitAt(index, i, tier) == IF i = 0 THEN NoMatch ELSE Hit(index[i], tier)

\* "exact substring": for entry in med_index: for n in entry["norms"]:
\*     if n and n in norm_text: return entry
HasNormIn(e, text) ==
    \E k \in 1..Len(e.norms) : e.norms[k] # <<>> /\ IsSubstring(e.norms[k], text)

\* A variant that scores the entries: the entry with the longest norm found in
\* the text, instead of the first entry with any.
exact_substring_longest(index, text) ==
    LET len(e) == IF HasNormIn(e, text)
                  THEN CHOOSE n \in 1..Len(text) :
                           /\ \E k \in 1..Len(e.norms) :
                                  Len(e.norms[k]) = n /\ IsSubstring(e.norms[k], text)
                           /\ \A k \in 1..Len(e.norms) :
                                  IsSubstring(e.norms[k], text) => Len(e.norms[k]) <= n
                  ELSE 0
    IN  HitAt(index,
              FirstEntry({i \in 1..Len(index) :
                             /\ HasNormIn(index[i], text)
                             /\ \A j \in 1..Len(index) : len(index[j]) <= len(index[i])}),
              "exact")

exact_substring(index, text) ==
    HitAt(index, FirstEntry({i \in 1..Len(index) : HasNormIn(index[i], text)}), "exact")

med_names_norm(index) == Dedup(Flatten([i \in 1..Len(index) |-> index[i].norms]))

\* if matches: the first entry with matched_norm in entry["norms"]
TokenOwner(index, matches) ==
    IF matches = <<>> THEN NoMatch
    ELSE HitAt(index,
               FirstEntry({i \in 1..Len(index) : InSeq(matches[1], index[i].norms)}),
               "token")

\* "token-fuzzy": for token in tokens: the best norm for the token, if any,
\* and the first entry that lists it
RECURSIVE TokenLoop(_, _, _, _)
TokenLoop(index, names, tokens, t) ==
    IF t > Len(tokens) THEN NoMatch
    ELSE OrElse(TokenOwner(index, get_close_matches(tokens[t], names, TokenCutoff)),
                TokenLoop(index, names, tokens, t + 1))

\* A variant whose loop does not return at the first token that matches: the
\* match of the last such token is what it returns.
token_fuzzy_last(index, text) ==
    LET tokens == Split(text)
    IN  TokenLoop(index, med_names_norm(index),
                  [i \in 1..Len(tokens) |-> tokens[Len(tokens) + 1 - i]], 1)

token_fuzzy(index, text) == TokenLoop(index, med_names_norm(index), Split(text), 1)

\* "overall fuzzy": the whole text against e["norms"][0] of every entry
med_name_list(index) ==
    LET with == SelectSeq(index, LAMBDA e : e.norms # <<>>)
    IN  [i \in 1..Len(with) |-> with[i].norms[1]]

\* if overall_matches: the first entry with matched_norm == entry["norms"][0]
OverallOwner(index, matches) ==
    IF matches = <<>> THEN NoMatch
    ELSE HitAt(index,
               FirstEntry({i \in 1..Len(index) : index[i].norms[1] = matches[1]}),
               "overall")

\* A variant that compares the text with every norm of every entry, aliases
\* included, instead of the first norm only.
overall_fuzzy_any_norm(index, text) ==
    LET owner == TokenOwner(index, get_close_matches(text, med_names_norm(index), OverallCutoff))
    IN  [owner EXCEPT !.tier = IF owner.none THEN "none" ELSE "overall"]

overall_fuzzy(index, text) ==
    OverallOwner(index, get_close_matches(text, med_name_list(index), OverallCutoff))

\* the three tiers on the normalized question
find_in_normalized(index, nt) ==
    OrElse(exact_substring(index, nt),
           OrElse(token_fuzzy(index, nt), overall_fuzzy(index, nt)))

find_med_in_text(index, text) == find_in_normalized(index, normalize_arabic(text))

(***************************************************************************)
(* Bounds and inputs.                                                      *)
(***************************************************************************)
MaxMeds == 2        \* records in medications.json
MaxTokens == 2      \* pieces of a question passed to find_med_in_text
MaxCalls == 2       \* direct calls of a pure function on one input
MaxNormLen == 3     \* length of a string passed to normalize_arabic
NumThreads == 2     \* requests served at the same time

Threads == 1..NumThreads

\* strings of the records and the questions: "a" = 97, "b" = 98, "A" = 65
R_aab == [name |-> <<97, 97, 98>>, info |-> StrInfo]
R_abb == [name |-> <<97, 98, 98>>, info |-> DictInfo(Absent, Absent, Absent)]
R_abab == [name |-> <<97, 98, 97, 98>>,
           info |-> DictInfo(Absent, StrVal(<<>>), ListVal(<<(<<65, 66, 65, 66>>)>>))]
R_bang == [name |-> BANG, info |-> StrInfo]
R_nokey == [name |-> <<>>, info |-> DictInfo(Absent, StrVal(<<97, 98>>), Absent)]
R_ba == [name |-> <<98, 97>>,
         info |-> DictInfo(ListVal(<<(<<65, 66, 66>>), (<<97, 98, 98>>), BANG>>),
                           Absent, Absent)]
R_ab == [name |-> <<97, 98>>, info |-> StrInfo]

Records == {R_aab, R_abb, R_abab, R_bang, R_nokey, R_ba, R_ab}

\* what load_medications_file can return: a dict, i.e. records with distinct
\* names in insertion order (the empty dict when the file is missing)
RecordSets ==
    UNION {{m \in [1..n -> Records] : \A i, j \in 1..n : i # j => m[i].name # m[j].name}
           : n \in 0..MaxMeds}

Pieces == {<<97, 98>>, <<97, 98, 98>>, <<65>>, BANG}

RECURSIVE JoinPieces(_)
JoinPieces(ps) ==
    IF ps = <<>> THEN <<>>
    ELSE IF Len(ps) = 1 THEN ps[1]
    ELSE ps[1] \o SP \o JoinPieces(Tail(ps))

\* questions: up to MaxTokens pieces separated by one space
Texts == {JoinPieces(ps) : ps \in UNION {[1..n -> Pieces] : n \in 0..MaxTokens}}

\* inputs of normalize_arabic: a Latin letter in both cases, ASCII
\* punctuation, space and tab, Arabic letters with the folded variants,
\* two diacritics and the Arabic comma
NormAlphabet == {9, 32, 33, 65, 97, 1548, 1571, 1572, 1574, 1575, 1576, 1608,
                 1609, 1610, 1614, 1648}
NormStrings == UNION {[1..n -> NormAlphabet] : n \in 0..MaxNormLen}

\* record sets and questions of the served requests
ServedRecordSets == {<<R_aab, R_nokey>>, <<R_aab, R_abb>>, <<R_ab, R_bang>>}
ServedTexts == {<<97, 98>>, <<65>>, BANG}

NoAnswer == [source |-> "none", key |-> <<>>, info |-> NoneInfo]

IdleThreads ==
    /\ pc = [t \in Threads |-> "idle"]
    /\ question_text = [t \in Threads |-> <<>>]
    /\ norm_text = [t \in Threads |-> <<>>]
    /\ found = [t \in Threads |-> NoMatch]
    /\ answer_text = [t \in Threads |-> NoAnswer]

thread_vars == <<pc, question_text, norm_text, found, answer_text>>
global_vars == <<medications_data, med_index, main_pc, gemini_model>>

(***************************************************************************)
(* Start-up (app.py:147-148) and the /upload handler.                      *)
(***************************************************************************)
Init ==
    /\ medications_data \in ServedRecordSets
    /\ med_index = <<>>
    /\ main_pc = "build"
    /\ gemini_model \in BOOLEAN
    /\ IdleThreads
    /\ arg = <<>>
    /\ rets = <<>>

\* med_index = build_med_index_from_dict(medications_data)
BuildIndex ==
    /\ main_pc = "build"
    /\ med_index' = build_med_index_from_dict(medications_data)
    /\ main_pc' = "serve"
    /\ UNCHANGED <<medications_data, gemini_model, thread_vars, arg, rets>>

\* upload_audio up to the saved file: the two 400 answers, or on to transcription
Upload(t) ==
    /\ main_pc = "serve"
    /\ pc[t] = "idle"
    /\ \E outcome \in {"no_file_key", "empty_filename", "saved"} :
           pc' = [pc EXCEPT ![t] = IF outcome = "saved" THEN "transcribe" ELSE "error_400"]
    /\ UNCHANGED <<global_vars, question_text, norm_text, found, answer_text, arg, rets>>

\* transcribe_file: an exception (500), an empty text (400) or the question
Transcribe(t) ==
    /\ pc[t] = "transcribe"
    /\ \E outcome \in {"exception", "text"}, q \in ServedTexts \cup {<<>>} :
           IF outcome = "exception"
           THEN /\ pc' = [pc EXCEPT ![t] = "error_500"]
                /\ UNCHANGED question_text
           ELSE /\ question_text' = [question_text EXCEPT ![t] = q]
                /\ pc' = [pc EXCEPT ![t] = IF q = <<>> THEN "error_400" ELSE "find_exact"]
    /\ UNCHANGED <<global_vars, norm_text, found, answer_text, arg, rets>>

\* find_med_in_text, first tier
FindExact(t) ==
    /\ pc[t] = "find_exact"
    /\ norm_text' = [norm_text EXCEPT ![t] = normalize_arabic(question_text[t])]
    /\ found' = [found EXCEPT ![t] = exact_substring(med_index, norm_text'[t])]
    /\ pc' = [pc EXCEPT ![t] = IF found'[t].none THEN "find_token" ELSE "answer"]
    /\ UNCHANGED <<global_vars, question_text, answer_text, arg, rets>>

\* A variant of the second tier in which med_names_norm is the first entry's
\* own norms list, extended in place, instead of a fresh list.
FindTokenShared(t) ==
    /\ pc[t] = "find_token"
    /\ found' = [found EXCEPT ![t] = token_fuzzy(med_index, norm_text[t])]
    /\ pc' = [pc EXCEPT ![t] = IF found'[t].none THEN "find_overall" ELSE "answer"]
    /\ med_index' = IF med_index = <<>> THEN med_index
                    ELSE [med_index EXCEPT ![1].norms =
                              Flatten([i \in 1..Len(med_index) |-> med_index[i].norms])]
    /\ UNCHANGED <<medications_data, main_pc, gemini_model, question_text, norm_text,
                   answer_text, arg, rets>>

\* find_med_in_text, second tier
FindToken(t) ==
    /\ pc[t] = "find_token"
    /\ found' = [found EXCEPT ![t] = token_fuzzy(med_index, norm_text[t])]
    /\ pc' = [pc EXCEPT ![t] = IF found'[t].none THEN "find_overall" ELSE "answer"]
    /\ UNCHANGED <<global_vars, question_text, norm_text, answer_text, arg, rets>>

\* find_med_in_text, third tier and the final return None, None
FindOverall(t) ==
    /\ pc[t] = "find_overall"
    /\ found' = [found EXCEPT ![t] = overall_fuzzy(med_index, norm_text[t])]
    /\ pc' = [pc EXCEPT ![t] = "answer"]
    /\ UNCHANGED <<global_vars, question_text, norm_text, answer_text, arg, rets>>

\* `if med_key:` on the returned key: None and "" are both false
KeyIsTruthy(r) == ~r.none /\ r.key # <<>>

\* the rest of upload_audio: the answer from the medications file, or the
\* Gemini fallback; the speech file and the JSON response carry the same answer
Answer(t) ==
    /\ pc[t] = "answer"
    /\ \E gemini \in {"gemini", "gemini_empty", "gemini_error"} :
           answer_text' = [answer_text EXCEPT ![t] =
               IF KeyIsTruthy(found[t])
               THEN [source |-> "medications", key |-> found[t].key, info |-> found[t].raw]
               ELSE IF gemini_model
                    THEN [source |-> gemini, key |-> <<>>, info |-> NoneInfo]
                    ELSE [source |-> "gemini_unconfigured", key |-> <<>>, info |-> NoneInfo]]
    /\ pc' = [pc EXCEPT ![t] = "done"]
    /\ UNCHANGED <<global_vars, question_text, norm_text, found, arg, rets>>

Next ==
    \/ BuildIndex
    \/ \E t \in Threads : Upload(t)
    \/ \E t \in Threads : Transcribe(t)
    \/ \E t \in Threads : FindExact(t)
    \/ \E t \in Threads : FindToken(t)
    \/ \E t \in Threads : FindOverall(t)
    \/ \E t \in Threads : Answer(t)

Spec == Init /\ [][Next]_vars

(***************************************************************************)
(* Direct calls of find_med_in_text on an index built from a record set.   *)
(***************************************************************************)
InitFind ==
    /\ medications_data \in RecordSets
    /\ med_index = <<>>
    /\ main_pc = "build"
    /\ gemini_model = FALSE
    /\ IdleThreads
    /\ arg \in Texts
    /\ rets = <<>>

CallFind ==
    /\ main_pc = "serve"
    /\ Len(rets) < MaxCalls
    /\ rets' = Append(rets, find_med_in_text(med_index, arg))
    /\ UNCHANGED <<global_vars, thread_vars, arg>>

NextFind == BuildIndex \/ CallFind

SpecFind == InitFind /\ [][NextFind]_vars

(***************************************************************************)
(* Direct calls of normalize_arabic: on a string, then on its own result.  *)
(***************************************************************************)
InitNorm ==
    /\ medications_data = <<>>
    /\ med_index = <<>>
    /\ main_pc = "serve"
    /\ gemini_model = FALSE
    /\ IdleThreads
    /\ arg \in NormStrings
    /\ rets = <<>>

CallNormalize ==
    /\ Len(rets) < MaxCalls
    /\ rets' = Append(rets, normalize_arabic(IF rets = <<>> THEN arg ELSE rets[Len(rets)]))
    /\ UNCHANGED <<global_vars, thread_vars, arg>>

NextNorm == CallNormalize

SpecNorm == InitNorm /\ [][NextNorm]_vars

(***************************************************************************)
(* Properties of find_med_in_text, stated on a direct call: med_index is   *)
(* the built index, arg the question and rets the results returned.        *)
(***************************************************************************)
Q == normalize_arabic(arg)
Entries == 1..Len(med_index)
Norms(i) == med_index[i].norms
NormSet(i) == {Norms(i)[k] : k \in 1..Len(Norms(i))}
AllNorms == UNION {NormSet(i) : i \in Entries}
PrimaryNorms == {Norms(i)[1] : i \in Entries}
Least(S) == CHOOSE k \in S : \A j \in S : k <= j
FirstOwner(n) == Least({i \in Entries : n \in NormSet(i)})
IsEntry(r, i) == ~r.none /\ r.key = med_index[i].key /\ r.raw = med_index[i].raw

\* similarity of a norm to a word, and the norms of S most similar to the word
Sim(n, word) == ratio(n, word)
SimAtLeast(n, word, cutoff) == FracGE(Sim(n, word), cutoff)
MostSimilar(S, sim) == {n \in S : \A m \in S : ~FracLess(sim[n], sim[m])}
BestIn(S, word) == MostSimilar(S, [n \in S |-> Sim(n, word)])

\* entries with a non-empty norm that is a substring of the normalized question q
SubstringEntries(q) ==
    {i \in Entries : \E n \in NormSet(i) : n # <<>> /\ IsSubstring(n, q)}

\* tokens with some norm of the set at similarity 0.75 or more
CloseTokens(tokens, norms) ==
    {k \in 1..Len(tokens) : \E n \in norms : SimAtLeast(n, tokens[k], <<3, 4>>)}

\* C1: a question whose normalized form is empty returns (None, None),
\* whatever the index holds.
C1_EmptyQueryNoMatch ==
    \A c \in 1..Len(rets) : Q = <<>> => rets[c].none

\* the earliest of the entries subs is returned by every call
FirstOfReturned(subs) ==
    \A c \in 1..Len(rets) :
        /\ IsEntry(rets[c], Least(subs))
        /\ rets[c].tier = "exact"
        /\ rets[c] = rets[1]

\* C2: when some entry has a non-empty norm inside the normalized question,
\* the earliest such entry of the index is returned, by every call.
C2_FirstSubstringEntryWins ==
    (rets # <<>> /\ SubstringEntries(Q) # {}) => FirstOfReturned(SubstringEntries(Q))

SharedNormInside(q) ==
    \E i, j \in Entries :
        i < j /\ \E n \in NormSet(i) \cap NormSet(j) : n # <<>> /\ IsSubstring(n, q)

\* two entries carry the same norm, it lies inside the question, and the
\* call was made twice
C2_Witness ==
    Len(rets) >= 2 /\ SharedNormInside(Q)

\* the first entry owning a best norm of the word is returned by every call,
\* from the token tier
BestOwnerReturned(word) ==
    \A c \in 1..Len(rets) :
        /\ rets[c].tier = "token"
        /\ \E n \in BestIn(AllNorms, word) : IsEntry(rets[c], FirstOwner(n))

TokenTierDecides(q, tokens, close) ==
    (SubstringEntries(q) = {} /\ close # {}) => BestOwnerReturned(tokens[Least(close)])

\* C3: when no norm lies inside the question, the leftmost token with a norm
\* at similarity 0.75 or more decides: the first entry owning a best norm of
\* that token is returned, whatever the tokens to its right are close to.
C3_LeftmostCloseTokenDecides ==
    rets # <<>> => TokenTierDecides(Q, Split(Q), CloseTokens(Split(Q), AllNorms))

CloserTokenToTheRight(q, tokens, close) ==
    /\ SubstringEntries(q) = {}
    /\ close # {}
    /\ \E k \in close, m \in AllNorms :
           /\ k > Least(close)
           /\ \A n \in AllNorms : FracLess(Sim(n, tokens[Least(close)]), Sim(m, tokens[k]))
           /\ ~IsEntry(rets[1], FirstOwner(m))

\* a token to the right of the deciding one is closer to some norm than the
\* deciding token is to any, and that norm belongs to another entry
C3_Witness ==
    rets # <<>> /\ CloserTokenToTheRight(Q, Split(Q), CloseTokens(Split(Q), AllNorms))

OverallTier(q, earlier_tiers_failed) ==
    \A c \in 1..Len(rets) :
        /\ rets[c].tier = "overall" => earlier_tiers_failed
        /\ earlier_tiers_failed =>
               /\ ~rets[c].none <=> \E n \in PrimaryNorms : SimAtLeast(n, q, <<3, 5>>)
               /\ ~rets[c].none =>
                      /\ rets[c].tier = "overall"
                      /\ \E i \in Entries :
                             /\ IsEntry(rets[c], i)
                             /\ Norms(i)[1] \in BestIn(PrimaryNorms, q)

\* C4: the whole-string tier is the one that returns only when the two tiers
\* before it found nothing; it then returns an entry exactly when some
\* entry's first norm has similarity 0.6 or more to the normalized question,
\* and the returned entry's first norm is a most similar first norm.
C4_OverallTierOnPrimaryNorms ==
    rets # <<>> =>
        OverallTier(Q, SubstringEntries(Q) = {} /\ CloseTokens(Split(Q), AllNorms) = {})

OtherAliasClose(q) ==
    /\ q # <<>>
    /\ \E i \in Entries :
           /\ ~IsEntry(rets[1], i)
           /\ \E k \in 2..Len(Norms(i)) :
                  Norms(i)[k] # <<>> /\ SimAtLeast(Norms(i)[k], q, <<3, 5>>)

\* the whole-string tier returned an entry although an alias of another
\* entry is as close to the question as 0.6
C4_Witness ==
    rets # <<>> /\ rets[1].tier = "overall" /\ OtherAliasClose(Q)

NothingReturned == \A c \in 1..Len(rets) : rets[c].none

NoSharedToken(q, tokens) ==
    /\ \A k \in 1..Len(tokens) : tokens[k] \notin AllNorms
    /\ SubstringEntries(q) = {}
    /\ \A n \in PrimaryNorms : ~SimAtLeast(n, q, <<3, 5>>)

\* C5 as claimed: no token equal to a norm, no norm inside the question and
\* every first norm below 0.6 give (None, None).
C5_NoSharedTokenNoMatch ==
    (rets # <<>> /\ NoSharedToken(Q, Split(Q))) => NothingReturned

NoTierMatches(q, tokens) ==
    /\ SubstringEntries(q) = {}
    /\ CloseTokens(tokens, AllNorms) = {}
    /\ \A n \in PrimaryNorms : ~SimAtLeast(n, q, <<3, 5>>)

\* C5 as amended: no norm inside the question, no token at similarity 0.75 or
\* more to any norm and every first norm below 0.6 give (None, None).
C5_NoTierMatchesNoMatch ==
    (rets # <<>> /\ NoTierMatches(Q, Split(Q))) => NothingReturned

NearToken(tokens) ==
    /\ Len(tokens) >= 2
    /\ \E k \in 1..Len(tokens), n \in AllNorms : SimAtLeast(n, tokens[k], <<3, 5>>)

\* nothing matched although a token of a longer question is as close as 0.6,
\* but not 0.75, to a norm
C5_Witness ==
    rets # <<>> /\ rets[1].none /\ NearToken(Split(Q))

\* C6: no entry of the built index has an empty norm or the same norm twice.
C6_NormsNonEmptyDistinct ==
    main_pc = "serve" =>
        \A i \in Entries :
            /\ \A k \in 1..Len(Norms(i)) : Norms(i)[k] # <<>>
            /\ \A k, l \in 1..Len(Norms(i)) : k # l => Norms(i)[k] # Norms(i)[l]

EarliestBestOwner(r, q, tokens) ==
    /\ r.tier = "token" =>
           IsEntry(r, Least({i \in Entries :
                                NormSet(i) \cap BestIn(AllNorms,
                                    tokens[Least(CloseTokens(tokens, AllNorms))]) # {}}))
    /\ r.tier = "overall" =>
           IsEntry(r, Least({i \in Entries : Norms(i)[1] \in BestIn(PrimaryNorms, q)}))

\* C10: in the fuzzy tiers, the entry returned is the earliest entry of the
\* index among those owning a norm of the best similarity.
C10_FuzzyTieEarliestEntry ==
    rets # <<>> => EarliestBestOwner(rets[1], Q, Split(Q))

(***************************************************************************)
(* normalize_arabic applied to its own result.                             *)
(***************************************************************************)
\* C7: normalize_arabic(normalize_arabic(s)) = normalize_arabic(s).
C7_NormalizeIdempotent ==
    \A c \in 2..Len(rets) : rets[c] = rets[c - 1]

\* the first application changed the string and left something
C7_Witness ==
    /\ Len(rets) >= 2
    /\ rets[1] # arg
    /\ rets[1] # <<>>
    /\ Len(rets[1]) < Len(arg)

(***************************************************************************)
(* The served requests.                                                    *)
(***************************************************************************)
Returned(t) == pc[t] \in {"answer", "done"}

\* C8: the record set never changes, the index never changes once built, and
\* every request gets from find_med_in_text what a call alone on the built
\* index returns, whatever the other requests are doing.
C8_IndexReadOnly ==
    /\ [][/\ medications_data' = medications_data
          /\ main_pc = "serve" => med_index' = med_index]_vars
    /\ [](\A t \in Threads :
              Returned(t) =>
                  found[t] = find_med_in_text(build_med_index_from_dict(medications_data),
                                              question_text[t]))

\* two requests are past find_med_in_text, one of them through the token tier
C8_Witness ==
    \E t, u \in Threads :
        /\ t # u
        /\ Returned(t) /\ Returned(u)
        /\ found[t].tier = "token"
        /\ ~found[u].none

\* C9: the answer comes from the medications file exactly when
\* find_med_in_text returned an entry, and is then built from its payload.
C9_FallbackOnlyOnNoMatch ==
    \A t \in Threads :
        pc[t] = "done" =>
            /\ answer_text[t].source = "medications" <=> ~found[t].none
            /\ ~found[t].none => answer_text[t].info = found[t].raw

====
